---------------------------- MODULE Spec2Model ----------------------------
(***************************************************************************)
(* The KYC wizard of src/pages/index.tsx (component KycPage): the step     *)
(* machine, the Ghana Card verification gate, the Formik form state and    *)
(* the submission controller.                                              *)
(*                                                                         *)
(* Execution model.  The page runs on the browser's single event loop.     *)
(* Every action below is one task of that loop: a user event with the      *)
(* handler it triggers, or the arrival of a network response with the      *)
(* continuation of the handler that awaited it.  `await                    *)
(* formik.validateForm()` (line 229) and Formik's own validation in        *)
(* submitForm settle through promise reactions only, so they resume in     *)
(* the microtask checkpoint of the task that started them, before any      *)
(* other event is dispatched; the part of a handler up to its              *)
(* `await axios.post(...)` is therefore one atomic step.  The axios calls  *)
(* are the two real suspension points: the calls in flight are state.      *)
(*                                                                         *)
(* A handler's state updates are rendered, and the effects of that render  *)
(* (useFilePreview's cleanup and effect, and the render its setPreview     *)
(* asks for) are flushed, before React handles the next event: the states  *)
(* of the model are the settled ones, and every action ends with           *)
(* CommitEffects.                                                          *)
(*                                                                         *)
(* Text is modelled as a sequence of one-character strings, so that the    *)
(* two regular expressions of validationSchema are computed, not assumed.  *)
(***************************************************************************)
EXTENDS Integers, Sequences, FiniteSets, Bags

\* ------------------------------------------------------------------ bounds

\* Most verify-ghana-card requests the model lets be in flight at once.
MaxVerifyCalls == 2

\* Most complete-kyc requests the model lets be in flight at once.
MaxSubmitCalls == 1

\* The count of verify-ghana-card requests issued for one number saturates
\* here.
MaxCounted == 2

\* ------------------------------------------------------------ input domains

Digits == {"0", "1", "2", "3", "4", "5", "6", "7", "8", "9"}

\* "" : the initial value of both text fields.
EmptyText == << >>

\* "GHA-123456789-1"
CardA == <<"G","H","A","-","1","2","3","4","5","6","7","8","9","-","1">>

\* "GHA-987654321-0"
CardB == <<"G","H","A","-","9","8","7","6","5","4","3","2","1","-","0">>

\* "GHA-12345678-1" : eight digits where nine are required.
CardShort == <<"G","H","A","-","1","2","3","4","5","6","7","8","-","1">>

\* The texts the user types into the Ghana Card Number input (the field starts
\* empty).
Numbers == {CardA, CardB, CardShort}

\* "244000000"
MomoGood == <<"2","4","4","0","0","0","0","0","0">>

\* "24400" : five digits where at least six are required.
MomoShort == <<"2","4","4","0","0">>

\* The texts the user types into the Mobile Money Number input (the field
\* starts empty).
MomoNumbers == {MomoGood, MomoShort}

\* A File | null field holding null.
NoFile == "null"

\* The files the user can pick.
Files == {"f1"}

\* One more file, picked where a specification has a file replaced.
OtherFile == "f2"

\* The File | null fields of KycFormValues.
FileFields == {"ghanaCardFront", "ghanaCardBack", "selfie"}

KYC_STEPS == <<"Ghana Card", "MoMo Verification", "Selfie Upload">>

Fields ==
  {"number", "ghanaCardFront", "ghanaCardBack",
   "momo.country_code", "momo.number", "selfie"}

initialValues ==
  [number         |-> EmptyText,
   ghanaCardFront |-> NoFile,
   ghanaCardBack  |-> NoFile,
   momo           |-> [country_code |-> "+233", number |-> EmptyText],
   selfie         |-> NoFile]

\* ------------------------------------------------------- validationSchema

\* MatchesGhanaCard with the digit count dropped: /^GHA-\d+-\d$/.
MatchesGhanaCardUncounted(s) ==
  /\ Len(s) >= 7
  /\ s[1] = "G" /\ s[2] = "H" /\ s[3] = "A" /\ s[4] = "-"
  /\ \A i \in 5..(Len(s) - 2) : s[i] \in Digits
  /\ s[Len(s) - 1] = "-"
  /\ s[Len(s)] \in Digits

\* /^GHA-\d{9}-\d$/
MatchesGhanaCard(s) ==
  /\ Len(s) = 15
  /\ s[1] = "G" /\ s[2] = "H" /\ s[3] = "A" /\ s[4] = "-"
  /\ \A i \in 5..13 : s[i] \in Digits
  /\ s[14] = "-"
  /\ s[15] \in Digits

\* /^[0-9]{6,15}$/
MatchesMomo(s) ==
  /\ Len(s) >= 6
  /\ Len(s) <= 15
  /\ \A i \in 1..Len(s) : s[i] \in Digits

\* The message Yup reports for one field of the schema of its step, "" when
\* the field passes.  Formik hands "" to Yup as undefined, so an empty text
\* fails `required` only.
FieldError(v, f) ==
  CASE f = "number" ->
         IF v.number = EmptyText THEN "Ghana Card Number is required"
         ELSE IF ~MatchesGhanaCard(v.number)
              THEN "Invalid Ghana Card Number format"
              ELSE ""
    [] f = "ghanaCardFront" ->
         IF v.ghanaCardFront = NoFile THEN "Front image is required" ELSE ""
    [] f = "ghanaCardBack" ->
         IF v.ghanaCardBack = NoFile THEN "Back image is required" ELSE ""
    [] f = "momo.country_code" ->
         IF v.momo.country_code = "" THEN "Country code is required" ELSE ""
    [] f = "momo.number" ->
         IF v.momo.number = EmptyText THEN "Phone number is required"
         ELSE IF ~MatchesMomo(v.momo.number) THEN "Invalid phone number"
              ELSE ""
    [] f = "selfie" ->
         IF v.selfie = NoFile THEN "Selfie is required" ELSE ""

\* The fields of validationSchema[step]; no schema beyond the third.
StepFields(step) ==
  CASE step = 0 -> {"number", "ghanaCardFront", "ghanaCardBack"}
    [] step = 1 -> {"momo.country_code", "momo.number"}
    [] step = 2 -> {"selfie"}
    [] OTHER    -> {}

\* formik.validateForm() under validationSchema[step]: the error mapping,
\* whose keys are the failing fields of that step.
validateForm(v, step) ==
  LET bad == {f \in StepFields(step) : FieldError(v, f) # ""}
  IN  [f \in bad |-> FieldError(v, f)]

\* Object.keys(errors).length === 0
NoErrors(errs) == DOMAIN errs = {}

\* --------------------------------------------------------- remote outcomes

\* What a verify-ghana-card call can come back with.  thrown: axios rejected
\* (a non-2xx status or no response at all); verified and bodyMessage: the
\* response body's fields, "" for an absent message; errMessage: the thrown
\* error's own message.
VerifyOutcomes ==
  { [thrown |-> FALSE, verified |-> TRUE,  bodyMessage |-> "", errMessage |-> ""],
    [thrown |-> FALSE, verified |-> FALSE, bodyMessage |-> "Not found", errMessage |-> ""],
    [thrown |-> FALSE, verified |-> FALSE, bodyMessage |-> "", errMessage |-> ""],
    [thrown |-> TRUE,  verified |-> FALSE, bodyMessage |-> "Not found", errMessage |-> "Network Error"],
    [thrown |-> TRUE,  verified |-> FALSE, bodyMessage |-> "", errMessage |-> "Network Error"],
    [thrown |-> TRUE,  verified |-> FALSE, bodyMessage |-> "", errMessage |-> ""] }

\* The message handleNext stores in ghanaCardError for a call that did not
\* verify.
VerifyFailureMessage(o) ==
  IF o.thrown
  THEN IF o.bodyMessage # "" THEN o.bodyMessage
       ELSE IF o.errMessage # "" THEN o.errMessage
            ELSE "Ghana Card verification failed."
  ELSE IF o.bodyMessage # "" THEN o.bodyMessage
       ELSE "Ghana Card verification failed."

\* What a complete-kyc call can come back with.
SubmitOutcomes ==
  { [thrown |-> FALSE, bodyMessage |-> "KYC Completed!", full_name |-> "Jane Doe", errMessage |-> ""],
    [thrown |-> FALSE, bodyMessage |-> "", full_name |-> "", errMessage |-> ""],
    [thrown |-> TRUE,  bodyMessage |-> "Invalid data", full_name |-> "", errMessage |-> "Network Error"],
    [thrown |-> TRUE,  bodyMessage |-> "", full_name |-> "", errMessage |-> "Network Error"],
    [thrown |-> TRUE,  bodyMessage |-> "", full_name |-> "", errMessage |-> ""] }

\* The message onSubmit stores in error for a call that failed.
SubmitFailureMessage(o) ==
  IF o.bodyMessage # "" THEN o.bodyMessage
  ELSE IF o.errMessage # "" THEN o.errMessage
       ELSE "Failed to complete KYC"

\* ------------------------------------------------------------------- state

VARIABLES
  currentStep,          \* useState(0)
  loading,              \* useState(false): a submission is pending
  error,                \* useState(""): the last submission's failure
  success,              \* useState(""): the last submission's success message
  ghanaCardVerified,    \* useState(false)
  verifyingGhanaCard,   \* useState(false): a verification is pending
  ghanaCardError,       \* useState("")
  showSuccessScreen,    \* useState(false)
  fullName,             \* useState("")
  submittedValues,      \* useState(null): << >> for null, else <<values>>
  values,               \* formik.values
  touched,              \* formik.touched
  errors,               \* formik.errors
  verifyCalls,          \* bag of verify-ghana-card requests in flight
  submitCalls,          \* bag of complete-kyc requests in flight
  previews,             \* the useFilePreview instances: dependency, state, cleanup
  objectURLs,           \* bag of the object URLs created and not revoked
  issuedForNumber       \* verify-ghana-card requests issued since the number last changed

formState == <<values, touched, errors>>

gateState == <<ghanaCardVerified, verifyingGhanaCard, ghanaCardError>>

submitState == <<loading, error, success, showSuccessScreen, fullName, submittedValues>>

calls == <<verifyCalls, submitCalls>>

previewState == <<previews, objectURLs>>

vars == <<currentStep, formState, gateState, submitState, calls, previewState, issuedForNumber>>

Init ==
  /\ currentStep = 0
  /\ loading = FALSE
  /\ error = ""
  /\ success = ""
  /\ ghanaCardVerified = FALSE
  /\ verifyingGhanaCard = FALSE
  /\ ghanaCardError = ""
  /\ showSuccessScreen = FALSE
  /\ fullName = ""
  /\ submittedValues = << >>
  /\ values = initialValues
  /\ touched = [f \in Fields |-> FALSE]
  /\ errors = << >>
  /\ verifyCalls = EmptyBag
  /\ submitCalls = EmptyBag
  /\ previews = [h \in {"input", "summary"} \X FileFields |->
                  [file |-> NoFile, preview |-> "none", url |-> "none"]]
  /\ objectURLs = EmptyBag
  /\ issuedForNumber = 0

\* ---------------------------------------------------------------- rendering

\* The early return of the render: the summary replaces the whole wizard.
SuccessScreen == showSuccessScreen /\ submittedValues # << >>

\* {currentStep > 0 && <button onClick={handleBack} ...>}
BackRendered == ~SuccessScreen /\ currentStep > 0

\* disabled={loading} of the Back button.
BackDisabled == loading

\* ContinueRendered at the last step too.
ContinueRenderedAlways == ~SuccessScreen

\* {currentStep < KYC_STEPS.length - 1 && <button onClick={handleNext} ...>}
ContinueRendered == ~SuccessScreen /\ currentStep < Len(KYC_STEPS) - 1

\* ContinueDisabled without the verification flag: disabled={loading}.
ContinueDisabledByLoadingOnly == loading

\* disabled={loading || verifyingGhanaCard} of the Continue button.
ContinueDisabled == loading \/ verifyingGhanaCard

\* {currentStep === KYC_STEPS.length - 1 && <button type="submit" ...>}
SubmitRendered == ~SuccessScreen /\ currentStep = Len(KYC_STEPS) - 1

\* disabled={loading} of the submit button.
SubmitDisabled == loading

\* The form's only field that takes Enter is alone in the form at step 0
\* (the Ghana Card Number input; file inputs and type="button" buttons do not
\* count) and no submit button is rendered there: the browser's implicit
\* submission then fires the form's submit event on Enter.  At step 1 two text
\* inputs are rendered, which blocks it; at step 2 there is no text input.
EnterSubmits == ~SuccessScreen /\ currentStep = 0

\* ----------------------------------------------------------- useFilePreview

\* The file inputs rendered at a step: both card images at step 0, the selfie
\* at step 2.
FileSlots(step) ==
  CASE step = 0 -> {"ghanaCardFront", "ghanaCardBack"}
    [] step = 2 -> {"selfie"}
    [] OTHER    -> {}

\* The instances of useFilePreview: one in each FileInputWithPreview
\* ("input"), and the three KycPage calls for the summary ("summary").
PreviewHooks == {"input", "summary"} \X FileFields

\* preview === null, and a hook with no URL to revoke.
NoURL == "none"

\* URL.createObjectURL(file): the URL is named after its file; the hook that
\* made it is kept beside it in objectURLs.
createObjectURL(f) == f

\* A hook of a component that is not rendered (and one rendered with null: no
\* preview, nothing to revoke).
Unmounted == [file |-> NoFile, preview |-> NoURL, url |-> NoURL]

\* HookMounted with inputs that are hidden, not removed, at the other steps.
HookMountedAlways(h, step, screen) == TRUE

\* The hook h is rendered: the summary hooks with KycPage itself, an input's
\* hook while its step is shown and the summary has not replaced the wizard.
HookMounted(h, step, screen) ==
  IF h[1] = "summary" THEN TRUE
  ELSE ~screen /\ h[2] \in FileSlots(step)

\* HookFile with every input reading the front image's value.
HookFileFrontOnly(h, v, sv) ==
  IF h[1] = "input" THEN v.ghanaCardFront
  ELSE IF sv = << >> THEN NoFile ELSE sv[1][h[2]]

\* The file the hook h is called with: the form's value, or the snapshot's
\* (submittedValues?.field ?? null).
HookFile(h, v, sv) ==
  IF h[1] = "input" THEN v[h[2]]
  ELSE IF sv = << >> THEN NoFile ELSE sv[1][h[2]]

\* RunEffect whose cleanup revokes nothing.
RunEffectNoCleanup(f) ==
  IF f = NoFile
  THEN [file |-> f, preview |-> NoURL, url |-> NoURL]
  ELSE [file |-> f, preview |-> createObjectURL(f), url |-> NoURL]

\* The effect of useFilePreview run for file f, and the render its setPreview
\* causes: no preview for null; else a new URL, shown, and kept by the cleanup.
RunEffect(f) ==
  IF f = NoFile
  THEN [file |-> f, preview |-> NoURL, url |-> NoURL]
  ELSE [file |-> f, preview |-> createObjectURL(f), url |-> createObjectURL(f)]

\* The hook h after a render with the given step, form values and snapshot:
\* gone with its component; as it was while its dependency [file] is the
\* same; else its effect is run again.  (A hook that is mounted with the file
\* it was unmounted with had its URL revoked and its record reset by the
\* unmount, so its effect runs.)
HookAfter(h, step, screen, v, sv) ==
  IF ~HookMounted(h, step, screen) THEN Unmounted
  ELSE IF previews[h].file = HookFile(h, v, sv)
       THEN previews[h]
       ELSE RunEffect(HookFile(h, v, sv))

\* The render that follows a handler's state updates, with its effects: the
\* cleanups of the hooks that are unmounted or whose file changed revoke their
\* URLs, then the effects of the hooks that are mounted or whose file changed
\* create theirs.
CommitEffects ==
  /\ previews' = [h \in PreviewHooks |->
                   HookAfter(h, currentStep', SuccessScreen', values', submittedValues')]
  /\ LET rerun   == {h \in PreviewHooks : previews'[h] # previews[h]}
         revoked == {<<h, previews[h].url>> : h \in {g \in rerun : previews[g].url # NoURL}}
         created == {<<h, previews'[h].preview>> : h \in {g \in rerun : previews'[g].preview # NoURL}}
     IN  objectURLs' = (objectURLs (-) SetToBag(revoked)) (+) SetToBag(created)

\* ------------------------------------------------------------ input handlers

\* NumberOnChange without the two resets: onChange={formik.handleChange}.
NumberOnChangeKeepsGate(n) ==
  /\ ~SuccessScreen
  /\ currentStep = 0
  /\ n # values.number
  /\ values' = [values EXCEPT !.number = n]
  /\ issuedForNumber' = 0
  /\ UNCHANGED <<currentStep, touched, errors, gateState, submitState, calls>>
  /\ CommitEffects

\* onChange of the Ghana Card Number input (rendered at step 0):
\* formik.handleChange(e); setGhanaCardVerified(false); setGhanaCardError("").
NumberOnChange(n) ==
  /\ ~SuccessScreen
  /\ currentStep = 0
  /\ n # values.number
  /\ values' = [values EXCEPT !.number = n]
  /\ ghanaCardVerified' = FALSE
  /\ ghanaCardError' = ""
  /\ issuedForNumber' = 0
  /\ UNCHANGED <<currentStep, touched, errors, verifyingGhanaCard, submitState, calls>>
  /\ CommitEffects

\* FileInputWithPreview's onChange: a picked file (handleFileChange) or null
\* (the Remove button, rendered while the slot holds a file), stored with
\* formik.setFieldValue(slot, file).
FileOnChange(slot, f) ==
  /\ ~SuccessScreen
  /\ slot \in FileSlots(currentStep)
  /\ f # values[slot]
  /\ values' = [values EXCEPT ![slot] = f]
  /\ UNCHANGED <<currentStep, touched, errors, gateState, submitState, calls, issuedForNumber>>
  /\ CommitEffects

\* onChange={formik.handleChange} of the momo.number input (rendered at step
\* 1; the momo.country_code input beside it is readOnly).
MomoOnChange(m) ==
  /\ ~SuccessScreen
  /\ currentStep = 1
  /\ m # values.momo.number
  /\ values' = [values EXCEPT !.momo.number = m]
  /\ UNCHANGED <<currentStep, touched, errors, gateState, submitState, calls, issuedForNumber>>
  /\ CommitEffects

\* --------------------------------------------------------------- handleNext

\* NeedsVerification without the cache: currentStep === 0.
NeedsVerificationUncached == currentStep = 0

\* NeedsVerification that takes a stored failure for an answer:
\* currentStep === 0 && !ghanaCardVerified && !ghanaCardError.
NeedsVerificationFailureCached ==
  currentStep = 0 /\ ~ghanaCardVerified /\ ghanaCardError = ""

\* NeedsVerification at the second boundary too: currentStep <= 1.
NeedsVerificationEveryStep == currentStep <= 1

\* currentStep === 0 && !ghanaCardVerified
NeedsVerification == currentStep = 0 /\ ~ghanaCardVerified

\* TouchedForStep that marks every field: what Formik's own submit does.
TouchedForStepAll(step) == [f \in Fields |-> TRUE]

\* The argument of formik.setTouched in handleNext's else branch.
TouchedForStep(step) == [f \in Fields |-> f \in StepFields(step)]

\* handleNext without setGhanaCardError("") before the call.
handleNextKeepsError ==
  /\ ContinueRendered
  /\ ~ContinueDisabled
  /\ LET errs == validateForm(values, currentStep)
     IN  /\ errors' = errs
         /\ IF NoErrors(errs)
            THEN IF NeedsVerification
                 THEN /\ BagCardinality(verifyCalls) < MaxVerifyCalls
                      /\ verifyingGhanaCard' = TRUE
                      /\ verifyCalls' = verifyCalls (+) SetToBag({[number |-> values.number]})
                      /\ issuedForNumber' =
                           (IF issuedForNumber < MaxCounted THEN issuedForNumber + 1
                            ELSE issuedForNumber)
                      /\ UNCHANGED <<currentStep, touched, ghanaCardVerified, ghanaCardError, submitCalls>>
                 ELSE /\ currentStep' = currentStep + 1
                      /\ UNCHANGED <<touched, gateState, calls, issuedForNumber>>
            ELSE /\ touched' = TouchedForStep(currentStep)
                 /\ UNCHANGED <<currentStep, gateState, calls, issuedForNumber>>
  /\ UNCHANGED <<values, submitState>>
  /\ CommitEffects

\* A press of Continue: handleNext up to its return or its
\* `await axios.post("/api/verify-ghana-card", ...)`.
handleNext ==
  /\ ContinueRendered
  /\ ~ContinueDisabled
  /\ LET errs == validateForm(values, currentStep)
     IN  /\ errors' = errs
         /\ IF NoErrors(errs)
            THEN IF NeedsVerification
                 THEN /\ BagCardinality(verifyCalls) < MaxVerifyCalls
                      /\ ghanaCardError' = ""
                      /\ verifyingGhanaCard' = TRUE
                      /\ verifyCalls' = verifyCalls (+) SetToBag({[number |-> values.number]})
                      /\ issuedForNumber' =
                           (IF issuedForNumber < MaxCounted THEN issuedForNumber + 1
                            ELSE issuedForNumber)
                      /\ UNCHANGED <<currentStep, touched, ghanaCardVerified, submitCalls>>
                 ELSE /\ currentStep' = currentStep + 1
                      /\ UNCHANGED <<touched, gateState, calls, issuedForNumber>>
            ELSE /\ touched' = TouchedForStep(currentStep)
                 /\ UNCHANGED <<currentStep, gateState, calls, issuedForNumber>>
  /\ UNCHANGED <<values, submitState>>
  /\ CommitEffects

\* VerifyResponse without the finally: setVerifyingGhanaCard(false) at the end
\* of the try only.
VerifyResponseNoFinally(c, o) ==
  /\ BagIn(c, verifyCalls)
  /\ verifyCalls' = verifyCalls (-) SetToBag({c})
  /\ IF ~o.thrown /\ o.verified
     THEN /\ ghanaCardVerified' = TRUE
          /\ currentStep' = currentStep + 1
          /\ UNCHANGED ghanaCardError
     ELSE /\ ghanaCardError' = VerifyFailureMessage(o)
          /\ UNCHANGED <<currentStep, ghanaCardVerified>>
  /\ verifyingGhanaCard' = o.thrown
  /\ UNCHANGED <<formState, submitState, submitCalls, issuedForNumber>>
  /\ CommitEffects

\* VerifyResponse without setGhanaCardVerified(true).
VerifyResponseUncached(c, o) ==
  /\ BagIn(c, verifyCalls)
  /\ verifyCalls' = verifyCalls (-) SetToBag({c})
  /\ IF ~o.thrown /\ o.verified
     THEN /\ currentStep' = currentStep + 1
          /\ UNCHANGED <<ghanaCardVerified, ghanaCardError>>
     ELSE /\ ghanaCardError' = VerifyFailureMessage(o)
          /\ UNCHANGED <<currentStep, ghanaCardVerified>>
  /\ verifyingGhanaCard' = FALSE
  /\ UNCHANGED <<formState, submitState, submitCalls, issuedForNumber>>
  /\ CommitEffects

\* The verify-ghana-card call c comes back with outcome o: the rest of
\* handleNext (the try's tail, the catch, the finally).
VerifyResponse(c, o) ==
  /\ BagIn(c, verifyCalls)
  /\ verifyCalls' = verifyCalls (-) SetToBag({c})
  /\ IF ~o.thrown /\ o.verified
     THEN /\ ghanaCardVerified' = TRUE
          /\ currentStep' = currentStep + 1
          /\ UNCHANGED ghanaCardError
     ELSE /\ ghanaCardError' = VerifyFailureMessage(o)
          /\ UNCHANGED <<currentStep, ghanaCardVerified>>
  /\ verifyingGhanaCard' = FALSE
  /\ UNCHANGED <<formState, submitState, submitCalls, issuedForNumber>>
  /\ CommitEffects

\* --------------------------------------------------------------- handleBack

\* BackTarget with the wrong bound function: Math.min(0, s - 1).
BackTargetMin(s) == IF s - 1 < 0 THEN s - 1 ELSE 0

\* Math.max(0, s - 1)
BackTarget(s) == IF s - 1 > 0 THEN s - 1 ELSE 0

\* handleBack that also forgets the verification.
handleBackResettingGate ==
  /\ BackRendered
  /\ ~BackDisabled
  /\ currentStep' = BackTarget(currentStep)
  /\ ghanaCardVerified' = FALSE
  /\ UNCHANGED <<formState, verifyingGhanaCard, ghanaCardError, submitState, calls, issuedForNumber>>
  /\ CommitEffects

\* A press of Back.
handleBack ==
  /\ BackRendered
  /\ ~BackDisabled
  /\ currentStep' = BackTarget(currentStep)
  /\ UNCHANGED <<formState, gateState, submitState, calls, issuedForNumber>>
  /\ CommitEffects

\* ----------------------------------------------------------------- onSubmit

\* The form's submit event can be fired: by the submit button, or by Enter in
\* the Ghana Card Number input.
SubmitEventPossible ==
  IF SubmitRendered THEN ~SubmitDisabled ELSE EnterSubmits

\* formik.submitForm with onSubmit, up to its
\* `await axios.post("/api/complete-kyc", ...)`: Formik marks every field
\* touched, validates under validationSchema[currentStep] and, with no error,
\* calls onSubmit(values).  limit: the calls the model lets be in flight.
submitForm(limit) ==
  /\ touched' = [f \in Fields |-> TRUE]
  /\ LET errs == validateForm(values, currentStep)
     IN  /\ errors' = errs
         /\ IF NoErrors(errs)
            THEN /\ BagCardinality(submitCalls) < limit
                 /\ loading' = TRUE
                 /\ error' = ""
                 /\ success' = ""
                 /\ submitCalls' = submitCalls (+) SetToBag({[values |-> values]})
                 /\ UNCHANGED <<showSuccessScreen, fullName, submittedValues>>
            ELSE UNCHANGED <<submitState, submitCalls>>
  /\ UNCHANGED <<currentStep, values, gateState, verifyCalls, issuedForNumber>>
  /\ CommitEffects

\* The form's submit event: formik.handleSubmit.
handleSubmit ==
  /\ SubmitEventPossible
  /\ submitForm(MaxSubmitCalls)

\* The form's submit event, with room for one more call in flight.
handleSubmitAgain ==
  /\ SubmitEventPossible
  /\ submitForm(MaxSubmitCalls + 1)

\* SubmitResponse that stores the form's values of the moment:
\* setSubmittedValues(formik.values).
SubmitResponseLiveValues(c, o) ==
  /\ BagIn(c, submitCalls)
  /\ submitCalls' = submitCalls (-) SetToBag({c})
  /\ IF ~o.thrown
     THEN /\ fullName' = o.full_name
          /\ success' = (IF o.bodyMessage # "" THEN o.bodyMessage ELSE "KYC Completed!")
          /\ submittedValues' = <<values>>
          /\ showSuccessScreen' = TRUE
          /\ UNCHANGED error
     ELSE /\ error' = SubmitFailureMessage(o)
          /\ UNCHANGED <<success, showSuccessScreen, fullName, submittedValues>>
  /\ loading' = FALSE
  /\ UNCHANGED <<currentStep, formState, gateState, verifyCalls, issuedForNumber>>
  /\ CommitEffects

\* The complete-kyc call c comes back with outcome o: the rest of onSubmit.
SubmitResponse(c, o) ==
  /\ BagIn(c, submitCalls)
  /\ submitCalls' = submitCalls (-) SetToBag({c})
  /\ IF ~o.thrown
     THEN /\ fullName' = o.full_name
          /\ success' = (IF o.bodyMessage # "" THEN o.bodyMessage ELSE "KYC Completed!")
          /\ submittedValues' = <<c.values>>
          /\ showSuccessScreen' = TRUE
          /\ UNCHANGED error
     ELSE /\ error' = SubmitFailureMessage(o)
          /\ UNCHANGED <<success, showSuccessScreen, fullName, submittedValues>>
  /\ loading' = FALSE
  /\ UNCHANGED <<currentStep, formState, gateState, verifyCalls, issuedForNumber>>
  /\ CommitEffects

\* ------------------------------------------------------------ specification

\* Every event but the form's submit event.
OtherEvents ==
  \/ \E n \in Numbers : NumberOnChange(n)
  \/ \E slot \in {"ghanaCardFront", "ghanaCardBack", "selfie"}, f \in Files \cup {NoFile} :
       FileOnChange(slot, f)
  \/ \E m \in MomoNumbers : MomoOnChange(m)
  \/ handleNext
  \/ \E c \in BagToSet(verifyCalls), o \in VerifyOutcomes : VerifyResponse(c, o)
  \/ handleBack
  \/ \E c \in BagToSet(submitCalls), o \in SubmitOutcomes : SubmitResponse(c, o)

Next == OtherEvents \/ handleSubmit

Spec == Init /\ [][Next]_vars

\* The same program with one more complete-kyc call allowed in flight, and
\* one number and one momo number for the user to type.
NextResubmit ==
  \/ NumberOnChange(CardA)
  \/ \E slot \in FileFields, f \in Files \cup {NoFile} : FileOnChange(slot, f)
  \/ MomoOnChange(MomoGood)
  \/ handleNext
  \/ \E c \in BagToSet(verifyCalls), o \in VerifyOutcomes : VerifyResponse(c, o)
  \/ handleBack
  \/ \E c \in BagToSet(submitCalls), o \in SubmitOutcomes : SubmitResponse(c, o)
  \/ handleSubmitAgain

SpecResubmit == Init /\ [][NextResubmit]_vars

\* A second file picked into a slot (one that replaces the first, where the
\* slot holds it).
FileReplace(slot) == FileOnChange(slot, OtherFile)

\* The same program with a second file to pick.
NextReplace == Next \/ \E slot \in FileFields : FileReplace(slot)

SpecReplace == Init /\ [][NextReplace]_vars

\* Some answer to a verify-ghana-card call in flight arrives.
VerifyResponds ==
  \E c \in BagToSet(verifyCalls), o \in VerifyOutcomes : VerifyResponse(c, o)

\* Some answer to a complete-kyc call in flight arrives.
SubmitResponds ==
  \E c \in BagToSet(submitCalls), o \in SubmitOutcomes : SubmitResponse(c, o)

\* The program where the remote answers or the transport fails: axios settles
\* every call it has in flight.
SpecLive == Spec /\ WF_vars(VerifyResponds) /\ WF_vars(SubmitResponds)

\* ----------------------------------------------- the specification's terms

\* An identity number as the specification words it: "GHA-", nine digits,
\* "-", one check digit.
WellFormedCardNumber(s) ==
  /\ Len(s) = 15
  /\ SubSeq(s, 1, 4) = <<"G", "H", "A", "-">>
  /\ \A i \in 5..13 : s[i] \in Digits
  /\ s[14] = "-"
  /\ s[15] \in Digits

\* A mobile-money number as the specification words it: 6 to 15 digits.
WellFormedMomoNumber(s) ==
  /\ Len(s) \in 6..15
  /\ \A i \in 1..Len(s) : s[i] \in Digits

\* The values pass the specification's rules for one step.
StepValid(v, step) ==
  CASE step = 0 -> /\ WellFormedCardNumber(v.number)
                   /\ v.ghanaCardFront # NoFile
                   /\ v.ghanaCardBack # NoFile
    [] step = 1 -> /\ v.momo.country_code # ""
                   /\ WellFormedMomoNumber(v.momo.number)
    [] step = 2 -> v.selfie # NoFile

\* The specification's VerificationState, read off the three gate flags.
VerificationState ==
  IF verifyingGhanaCard THEN "Pending"
  ELSE IF ghanaCardVerified THEN "Verified"
       ELSE IF ghanaCardError # "" THEN "Failed"
            ELSE "NotStarted"

\* The Continue control is on screen and enabled.
ContinuePressable == ContinueRendered /\ ~ContinueDisabled

\* A step that issues a verify-ghana-card call.
VerifyIssued == BagCardinality(verifyCalls') > BagCardinality(verifyCalls)

\* A step that issues a complete-kyc call.
SubmitIssued == BagCardinality(submitCalls') > BagCardinality(submitCalls)

\* A step in which a verify-ghana-card call comes back verified.
VerifiedArrives ==
  \E c \in BagToSet(verifyCalls), o \in VerifyOutcomes :
    VerifyResponse(c, o) /\ ~o.thrown /\ o.verified

\* --------------------------------------------------------------------- C1

\* C1: the step index goes from 0 to 1 only in a step where a verify call
\* comes back verified or where Continue is pressed with the Verified outcome
\* cached; a verify call that comes back unverified or fails leaves the step
\* at 0, stores the response's message (or a fallback) as the gate error and
\* leaves Continue on screen and enabled.
C1_GateDecidesStep1 ==
  [][ /\ (currentStep = 0 /\ currentStep' = 1)
         => (VerifiedArrives \/ (handleNext /\ ghanaCardVerified))
      /\ \A c \in BagToSet(verifyCalls), o \in VerifyOutcomes :
           (VerifyResponse(c, o) /\ (o.thrown \/ ~o.verified))
           => /\ currentStep = 0
              /\ currentStep' = 0
              /\ ghanaCardError' # ""
              /\ o.bodyMessage # "" => ghanaCardError' = o.bodyMessage
              /\ ContinuePressable'
    ]_vars

\* --------------------------------------------------------------------- C2

\* C2: a verified response to a call whose number is no longer the one in the
\* field (the field was edited while the call was in flight) is disregarded:
\* it neither sets ghanaCardVerified nor changes the step.
C2_StaleSuccessDisregarded ==
  [][ \A c \in BagToSet(verifyCalls), o \in VerifyOutcomes :
        (VerifyResponse(c, o) /\ ~o.thrown /\ o.verified /\ c.number # values.number)
        => (ghanaCardVerified' = FALSE /\ currentStep' = currentStep)
    ]_vars

\* --------------------------------------------------------------------- C3

\* C3: a complete-kyc call is issued only in a state whose form values pass
\* the rules of all three steps.
C3_SubmitOnlyFullyValid ==
  [][ SubmitIssued => \A step \in {0, 1, 2} : StepValid(values, step) ]_vars

\* --------------------------------------------------------------------- C4

\* C4: a press of Continue while the values break a rule of the current step
\* changes neither the step index nor the calls in flight, and a
\* verify-ghana-card call is only ever issued, at step 0, for values that pass
\* the rules of step 0 (a well-formed number and both images).
C4_InvalidNextStays ==
  [][ /\ (handleNext /\ ~StepValid(values, currentStep))
         => (currentStep' = currentStep /\ calls' = calls)
      /\ VerifyIssued => (currentStep = 0 /\ StepValid(values, 0))
    ]_vars

\* C4's case: Continue was pressed at step 0 on a malformed number, both
\* images present: the step-0 fields are touched, the format error is
\* reported, nothing is in flight.
C4_Witness ==
  /\ currentStep = 0
  /\ values.number = CardShort
  /\ values.ghanaCardFront # NoFile
  /\ values.ghanaCardBack # NoFile
  /\ touched = TouchedForStep(0)
  /\ DOMAIN errors = {"number"}
  /\ verifyCalls = EmptyBag
  /\ ~verifyingGhanaCard

\* --------------------------------------------------------------------- C5

\* C5: a change of the number while the verification state is Verified or
\* Failed leaves it NotStarted; from NotStarted with nothing in flight no
\* single step reaches step 1, and a press of Continue on valid step-0 values
\* issues a verify-ghana-card call carrying the number in the field.
C5_EditResetsVerification ==
  [][ /\ (values'.number # values.number /\ VerificationState \in {"Verified", "Failed"})
         => (VerificationState' = "NotStarted" /\ ~ghanaCardVerified' /\ ghanaCardError' = "")
      /\ (currentStep = 0 /\ VerificationState = "NotStarted")
         => /\ currentStep' = 0
            /\ (handleNext /\ StepValid(values, 0))
               => verifyCalls' = SetToBag({[number |-> values.number]})
    ]_vars

\* C5's case: the number was verified, then edited back at step 0 (the momo
\* number, typed at step 1, shows step 1 was reached), and Continue was pressed
\* again: the gate is asked about the new number.
C5_Witness ==
  /\ currentStep = 0
  /\ values.momo.number # EmptyText
  /\ values.number = CardB
  /\ ~ghanaCardVerified
  /\ verifyCalls = SetToBag({[number |-> CardB]})

\* --------------------------------------------------------------------- C6

\* C6: the Verified outcome survives every step that leaves the number alone
\* (going back included), and a press of Continue at step 0 with it cached and
\* valid step-0 values moves to step 1 without issuing a call.
C6_CachedVerificationSkipsCall ==
  [][ /\ (ghanaCardVerified /\ values'.number = values.number) => ghanaCardVerified'
      /\ VerifiedArrives => ghanaCardVerified'
      /\ (handleNext /\ currentStep = 0 /\ ghanaCardVerified /\ StepValid(values, 0))
         => (currentStep' = 1 /\ calls' = calls)
    ]_vars

\* C6's case: Continue failed at step 1 (its fields are touched, the momo
\* number was never typed), the user went back, and the last validation, the
\* one of step 0, passed: the wizard is at step 1 again with nothing in flight.
C6_Witness ==
  /\ currentStep = 1
  /\ ghanaCardVerified
  /\ values.momo.number = EmptyText
  /\ touched = TouchedForStep(1)
  /\ errors = << >>
  /\ verifyCalls = EmptyBag

\* --------------------------------------------------------------------- C7

\* C7: at most one verify-ghana-card call is in flight.
C7_OneVerificationInFlight == BagCardinality(verifyCalls) <= 1

\* C7's case: a verification is pending while Continue is on screen over
\* values that would pass validation: a press would start a second call.
C7_Witness ==
  /\ BagCardinality(verifyCalls) = 1
  /\ verifyingGhanaCard
  /\ ContinueRendered
  /\ ~loading
  /\ ~ghanaCardVerified
  /\ StepValid(values, currentStep)

\* --------------------------------------------------------------------- C8

\* C8: verifyingGhanaCard and loading are never both true.
C8_VerifyAndSubmitExclusive == ~(verifyingGhanaCard /\ loading)

\* --------------------------------------------------------------------- C9

\* C9: at most one complete-kyc call is in flight (checked where the model
\* leaves room for a second one, SpecResubmit).
C9_OneSubmissionInFlight == BagCardinality(submitCalls) <= 1

\* -------------------------------------------------------------------- C10

\* The Back control can be pressed.
BackPressable == BackRendered /\ ~BackDisabled

\* C10 as claimed: in every wizard state with step n > 0 Back can be pressed,
\* a pending call or not, and a press moves to exactly n - 1; at step 0
\* handleBack changes nothing.
C10_BackAlwaysPermitted ==
  /\ []((~SuccessScreen /\ currentStep > 0) => BackPressable)
  /\ [][handleBack => currentStep' = currentStep - 1]_vars
  /\ [](BackTarget(0) = 0)

\* C10 as amended: in every wizard state with step n > 0 and no submission
\* pending Back can be pressed, and a press moves to exactly n - 1; at step 0
\* handleBack changes nothing.
C10_BackPermittedUnlessSubmitting ==
  /\ []((~SuccessScreen /\ currentStep > 0 /\ ~loading) => BackPressable)
  /\ [][handleBack => currentStep' = currentStep - 1]_vars
  /\ [](BackTarget(0) = 0)

\* C10's case: Back was pressed at step 2 (the selfie, picked there, is held)
\* and the wizard is at step 1.
C10_Witness ==
  /\ currentStep = 1
  /\ values.selfie # NoFile
  /\ ~loading
  /\ ~SuccessScreen


\* -------------------------------------------------------------------- C11

\* C11: a step that lowers the step index (a press of Back) leaves the form
\* values, the cached verification, the gate error, the validation errors and
\* the calls in flight as they were.
C11_BackChangesOnlyStep ==
  [][ currentStep' < currentStep
      => /\ values' = values
         /\ gateState' = gateState
         /\ errors' = errors
         /\ calls' = calls
    ]_vars

\* C11's case: Continue failed at step 1 (the momo number's error is stored),
\* then Back was pressed: the wizard is at step 0 with the verification and
\* that error kept.
C11_Witness ==
  /\ currentStep = 0
  /\ ghanaCardVerified
  /\ "momo.number" \in DOMAIN errors
  /\ touched = TouchedForStep(1)
  /\ verifyCalls = EmptyBag

\* -------------------------------------------------------------------- C12

\* The submit control is on screen and enabled.
SubmitPressable == SubmitRendered /\ ~SubmitDisabled

\* C12: when a complete-kyc call fails, the form values are the ones that were
\* sent, the wizard is at step 2 with no summary and no snapshot, the failure's
\* message is stored, loading is cleared and the submit button can be pressed.
C12_FailedSubmitStaysOnStep2 ==
  [][ \A c \in BagToSet(submitCalls), o \in SubmitOutcomes :
        (SubmitResponse(c, o) /\ o.thrown)
        => /\ values' = c.values
           /\ currentStep' = 2
           /\ ~showSuccessScreen'
           /\ submittedValues' = << >>
           /\ error' # ""
           /\ ~loading'
           /\ SubmitPressable'
    ]_vars

\* -------------------------------------------------------------------- C13

\* A step in which a complete-kyc call comes back with a success.
SubmitSucceeds ==
  \E c \in BagToSet(submitCalls), o \in SubmitOutcomes :
    SubmitResponse(c, o) /\ ~o.thrown

\* C13: a complete-kyc call that succeeds shows the summary with a snapshot
\* equal to the values the call was sent with, whatever the form holds by
\* then, and no other step changes a stored snapshot.
C13_SnapshotIsWhatWasSent ==
  [][ /\ \A c \in BagToSet(submitCalls), o \in SubmitOutcomes :
           (SubmitResponse(c, o) /\ ~o.thrown)
           => (SuccessScreen' /\ submittedValues' = <<c.values>>)
      /\ (submittedValues # << >> /\ ~SubmitSucceeds)
         => submittedValues' = submittedValues
    ]_vars

\* C13's case: the summary is shown and the form's values are no longer the
\* snapshot's: they were changed while the call was pending.
C13_Witness ==
  /\ SuccessScreen
  /\ submittedValues[1] # values
  /\ submittedValues[1].selfie # NoFile
  /\ values.selfie = NoFile

\* -------------------------------------------------------------------- C14

\* The URL that the input of a slot made for the file f.
SlotURL(slot, f) == <<<<"input", slot>>, f>>

C15_SlotsIndependent ==
  [][ \A slot \in FileFields :
        values'[slot] # values[slot]
        => \A h \in PreviewHooks \ {<<"input", slot>>} :
             /\ previews'[h] = previews[h]
             /\ \A f \in Files \cup {OtherFile} :
                  CopiesIn(<<h, f>>, objectURLs') = CopiesIn(<<h, f>>, objectURLs)
    ]_vars

\* C15's case: at step 0 the front image was replaced by the second file and
\* the back image still shows the URL of the first.
C15_Witness ==
  /\ currentStep = 0
  /\ values.ghanaCardFront = OtherFile
  /\ values.ghanaCardBack = "f1"
  /\ objectURLs = SetToBag({SlotURL("ghanaCardFront", OtherFile),
                            SlotURL("ghanaCardBack", "f1")})

\* -------------------------------------------------------------------- C16

\* C16: a pending flag (verifyingGhanaCard, loading) that is set is cleared
\* later on; an answer to a call always clears the flag of its kind, and a
\* thrown one stores a message.
C16_CallsResolve ==
  /\ verifyingGhanaCard ~> ~verifyingGhanaCard
  /\ loading ~> ~loading
  /\ [][ /\ \A c \in BagToSet(verifyCalls), o \in VerifyOutcomes :
              VerifyResponse(c, o)
              => (~verifyingGhanaCard' /\ (o.thrown => ghanaCardError' # ""))
         /\ \A c \in BagToSet(submitCalls), o \in SubmitOutcomes :
              SubmitResponse(c, o)
              => (~loading' /\ (o.thrown => error' # ""))
       ]_vars

\* C16's case: a verify-ghana-card call failed in transport: its message is
\* stored, nothing is pending, and Continue can be pressed.
C16_Witness ==
  /\ ghanaCardError = "Network Error"
  /\ ~verifyingGhanaCard
  /\ verifyCalls = EmptyBag
  /\ ContinuePressable

\* -------------------------------------------------------------------- C17

\* C17: the step index is 0, 1 or 2, and it rises only by one, in a step where
\* a verify call comes back verified or where Continue is pressed on values
\* that pass the rules of the current step (with the verification cached, at
\* step 0).
C17_StepInRange ==
  /\ [](currentStep \in 0..2)
  /\ [][ currentStep' > currentStep
         => /\ currentStep' = currentStep + 1
            /\ \/ VerifiedArrives
               \/ /\ handleNext
                  /\ StepValid(values, currentStep)
                  /\ currentStep = 0 => ghanaCardVerified
       ]_vars

\* C17's case: the wizard is at the last step, where no Continue is rendered.
C17_Witness ==
  /\ currentStep = 2
  /\ ~SuccessScreen
  /\ ~ContinueRendered
  /\ SubmitRendered

\* -------------------------------------------------------------------- C18

\* C18 as claimed: between two changes of the number at most one
\* verify-ghana-card call is issued.
C18_OncePerNumber == issuedForNumber <= 1

\* C18 as amended: no verify-ghana-card call is issued while the Verified
\* outcome is cached, and a call that is not the first since the number
\* changed is issued only after a Failed outcome.
C18_OnceUnlessFailed ==
  [][ VerifyIssued
      => /\ ~ghanaCardVerified
         /\ issuedForNumber >= 1 => VerificationState = "Failed"
    ]_vars

\* C18's case: a second call for the same number is in flight.
C18_Witness ==
  /\ issuedForNumber = 2
  /\ verifyingGhanaCard
  /\ verifyCalls = SetToBag({[number |-> values.number]})

\* -------------------------------------------------------------------- C19

\* C19: a failed verify-ghana-card call leaves the verification state Failed
\* with nothing cached; a call is only ever issued by a press of Continue; and
\* a press in state Failed on valid step-0 values issues a call for the number
\* in the field.
C19_FailureNotCached ==
  [][ /\ \A c \in BagToSet(verifyCalls), o \in VerifyOutcomes :
           (VerifyResponse(c, o) /\ (o.thrown \/ ~o.verified))
           => (~ghanaCardVerified' /\ VerificationState' = "Failed")
      /\ VerifyIssued => handleNext
      /\ (handleNext /\ currentStep = 0 /\ VerificationState = "Failed" /\ StepValid(values, 0))
         => verifyCalls' = SetToBag({[number |-> values.number]})
    ]_vars

\* C19's case: the number failed, Continue was pressed again and the second
\* call came back verified: the wizard is at step 1.
C19_Witness ==
  /\ issuedForNumber = 2
  /\ currentStep = 1
  /\ ghanaCardVerified
  /\ ghanaCardError = ""

\* -------------------------------------------------------------------- C20

\* C20: a press of Continue at step 1 on values that pass the rules of step 1
\* moves to step 2 and leaves the calls in flight alone, and a
\* verify-ghana-card call is issued only at step 0.
C20_Step1AdvancesDirectly ==
  [][ /\ (handleNext /\ currentStep = 1 /\ StepValid(values, 1))
         => (currentStep' = 2 /\ calls' = calls)
      /\ VerifyIssued => currentStep = 0
    ]_vars

\* C20's case: the wizard is at step 2 with a valid momo number, nothing in
\* flight and nothing picked there yet.
C20_Witness ==
  /\ currentStep = 2
  /\ StepValid(values, 1)
  /\ values.selfie = NoFile
  /\ calls = <<EmptyBag, EmptyBag>>
  /\ ~loading
  /\ ~SuccessScreen


\* -------------------------------------------------------------------- C21

\* The fields of a step as the specification lists them.
FieldsOfStep(k) ==
  IF k = 0 THEN {"number", "ghanaCardFront", "ghanaCardBack"}
  ELSE IF k = 1 THEN {"momo.country_code", "momo.number"}
       ELSE {"selfie"}

\* C21: a press of Continue on values that break a rule of the current step
\* leaves exactly the fields of that step touched, and the form values and
\* the three gate flags as they were.
C21_FailedNextTouchesStep ==
  [][ (handleNext /\ ~StepValid(values, currentStep))
      => /\ \A f \in Fields : touched'[f] <=> f \in FieldsOfStep(currentStep)
         /\ values' = values
         /\ gateState' = gateState
    ]_vars

\* C21's case: Continue failed at step 1: its two fields alone are touched and
\* the momo number's error is stored.
C21_Witness ==
  /\ currentStep = 1
  /\ ghanaCardVerified
  /\ "momo.number" \in DOMAIN errors
  /\ \A f \in Fields : touched[f] <=> f \in FieldsOfStep(1)

\* -------------------------------------------------------------------- C22

\* The slot of a hook is on screen: an input at its step of the wizard, a
\* summary image on the summary.
Displayed(h) ==
  IF h[1] = "summary" THEN SuccessScreen
  ELSE /\ ~SuccessScreen
       /\ \/ currentStep = 0 /\ h[2] \in {"ghanaCardFront", "ghanaCardBack"}
          \/ currentStep = 2 /\ h[2] = "selfie"

\* The file of the slot of a hook: the form's, or the snapshot's.
FileOfSlot(h) ==
  IF h[1] = "input" THEN values[h[2]]
  ELSE IF submittedValues = << >> THEN NoFile ELSE submittedValues[1][h[2]]

\* The live URLs are each held by a hook.
LiveURLsOfHooks == \A u \in BagToSet(objectURLs) : u[1] \in PreviewHooks

\* C22: every live URL is the only one of its hook, whose slot is on screen
\* with the file the URL was made for.
C22_NoHandleLeaks ==
  /\ LiveURLsOfHooks
  /\ \A h \in PreviewHooks :
       LET live == {u \in BagToSet(objectURLs) : u[1] = h}
       IN  /\ Cardinality(live) <= 1
           /\ \A u \in live :
                /\ CopiesIn(u, objectURLs) = 1
                /\ Displayed(h)
                /\ FileOfSlot(h) # NoFile
                /\ u[2] = FileOfSlot(h)

\* C22's case: both card images are held, the wizard has left step 0 and no
\* URL is live.
C22_Witness ==
  /\ currentStep = 1
  /\ values.ghanaCardFront # NoFile
  /\ values.ghanaCardBack # NoFile
  /\ objectURLs = EmptyBag
  /\ ~SuccessScreen

\* -------------------------------------------------------------------- C23

\* C23: a complete-kyc call is issued only at step 2.
C23_SubmitOnlyAtStep2 ==
  [][ SubmitIssued => currentStep = 2 ]_vars

\* -------------------------------------------------------------------- C24

\* C24: once the summary is shown, no step changes the step index, the
\* snapshot or the form values, or issues a call.
C24_ResultAbsorbing ==
  [][ SuccessScreen
      => /\ currentStep' = currentStep
         /\ submittedValues' = submittedValues
         /\ values' = values
         /\ ~VerifyIssued
         /\ ~SubmitIssued
    ]_vars

\* -------------------------------------------------------------------- C25

\* C25: ghanaCardVerified is never true beside a stored gate error, and the
\* gate error is empty while a verification is pending.
C25_VerifiedAndErrorExclusive ==
  /\ ~(ghanaCardVerified /\ ghanaCardError # "")
  /\ verifyingGhanaCard => ghanaCardError = ""

\* C25's case: the number failed, was retried and verified, and the wizard is
\* back at step 0: the verified indicator shows with no error.
C25_Witness ==
  /\ currentStep = 0
  /\ issuedForNumber = 2
  /\ ghanaCardVerified
  /\ ghanaCardError = ""

==========================================================================
